---- MODULE Spec2Model ----
(***************************************************************************)
(* Model of the CockroachDB benchmark harness                              *)
(* (sweet/harnesses/cockroachdb.go): the Build pipeline with its deferred  *)
(* bazel cleanup and the Run loop over the six kv variants.                *)
(*                                                                         *)
(* One harness call runs at a time (pc = "idle" between calls).  External  *)
(* tools (go, bazel, chmod, the benchmark binary, the file helpers) are    *)
(* the environment: each either succeeds or returns an error, chosen       *)
(* nondeterministically.  The variables stepResults, cleanupResults,       *)
(* launched, runResults, purgeResults, tmpAtStart and buildBase record     *)
(* what happened during the current (or most recent) call.                 *)
(***************************************************************************)
EXTENDS Integers, Sequences, FiniteSets, TLC

VARIABLES
    pc,             \* position of the harness: "idle" or a statement of Build / Run
    envHeap,        \* the *common.Env nodes allocated so far: [parent, data]
    cfgBuildEnv,    \* cfg.BuildEnv.Env: pointer into envHeap
    cfgExecEnv,     \* cfg.ExecEnv: pointer into envHeap
    env,            \* Build's local env (0 = not assigned)
    files,          \* the files under BinDir: path -> content
    tmpDir,         \* the entries of rcfg.TmpDir
    argsArr,        \* backing array of rcfg.Args (its length is the capacity)
    argsLen,        \* len(rcfg.Args)
    short,          \* rcfg.Short
    deferred,       \* Build: TRUE while the deferred cleanup is registered
    i,              \* Run's loop index into Benches
    buildRet,       \* what Build returns (NoRet until it is decided)
    runRet,         \* what Run returns (NoRet until it is decided)
    stepResults,    \* Build: [step, err] of every step started, in order
    cleanupResults, \* Build: result of every run of the deferred cleanup
    launched,       \* the exec.Command processes started by this call
    runResults,     \* Run: result of every variant invocation
    purgeResults,   \* Run: result of every rmDirContents call
    tmpAtStart,     \* Run: the entries of TmpDir when each variant started
    buildBase,      \* Build: contents of cfg.BuildEnv when Build was called
    prevEnvList,    \* the environment list an earlier Build handed to bazel (<<>> = none)
    dirs,           \* the directories that exist
    goarch,         \* runtime.GOARCH of the host
    prereqRet,      \* what the latest CheckPrerequisites returned
    srcTree,        \* what gcfg.SrcDir holds
    getRet,         \* what the latest Get returned
    cloned,         \* the arguments and result of the latest gitDeepClone call
    gotTrees        \* the trees the last (at most two) successful Gets produced

vars == <<pc, envHeap, cfgBuildEnv, cfgExecEnv, env, files, tmpDir, argsArr,
          argsLen, short, deferred, i, buildRet, runRet, stepResults, cleanupResults,
          launched, runResults, purgeResults, tmpAtStart, buildBase, prevEnvList,
          dirs, goarch, prereqRet, srcTree, getRet, cloned, gotTrees>>

cfgVars == <<cfgBuildEnv, cfgExecEnv, argsLen, short>>
buildHist == <<stepResults, cleanupResults, buildBase>>
runHist == <<runResults, purgeResults, tmpAtStart>>
hostVars == <<goarch, prereqRet, srcTree, getRet, cloned, gotTrees>>

----------------------------------------------------------------------------
(* Bounds of the model *)

\* longest base argument list rcfg.Args
MaxBaseArgs == 1
\* number of distinct entries a variant may leave in TmpDir
MaxTmpEntries == 2

----------------------------------------------------------------------------
(* Values *)

NoRet == [kind |-> "none", ctx |-> "", msg |-> ""]
Nil == [kind |-> "nil", ctx |-> "", msg |-> ""]
Err(m) == [kind |-> "error", ctx |-> "", msg |-> m]

\* errors an external command can end with (exec.Cmd.Run)
ExecErrs == {Err("exit status 1"), Err("exec: executable file not found in $PATH")}
\* errors of the helpers of the harness package and of the go tool wrapper
ToolErrs == {Err("tool failed")}

\* the directories handed in by the driver and the toolchain root
SrcDir == "/work/src"
BinDir == "/work/bin"
BenchDir == "/work/bench"
TmpDir == "/work/tmp"
GoRoot == "/goroot"

Join(a, b) == a \o "/" \o b

\* os.Environ() of the harness process
AmbientEnv == <<"HOME=/root", "PATH=/sbin">>

\* gcfg.SrcDir before any acquisition
EmptyTree == [remote |-> "", rev |-> "", submodules |-> FALSE]

\* no gitDeepClone call yet
NoClone == [dir |-> "", url |-> "", rev |-> "", err |-> NoRet]

TmpEntries == {"entry" \o ToString(k) : k \in 1..MaxTmpEntries}

BaseArgLists == {[k \in 1..n |-> "-v"] : n \in 0..MaxBaseArgs}

\* spare capacities of rcfg.Args: none, room for the six variant flags,
\* room for the flags and "-short"
SpareCaps == {0, 6, 7}

\* the data of the base build environment handed in by the driver
BaseEnvData == {
    ("HOME" :> "/root"),
    ("HOME" :> "/root") @@ ("PATH" :> "/usr/bin"),
    ("GOROOT" :> "/old") @@ ("PATH" :> "/usr/bin") }

ExecEnvData == ("HOME" :> "/root") @@ ("PATH" :> "/usr/bin")

\* the stable key order of a flattened environment
KeyOrder == <<"GOROOT", "HOME", "PATH">>

----------------------------------------------------------------------------
(* common.Env: an immutable chain of nodes; every edit allocates a node *)

RECURSIVE Lookup(_, _, _)
Lookup(h, e, k) ==
    IF e = 0 THEN [v |-> "", ok |-> FALSE]
    ELSE IF k \in DOMAIN h[e].data THEN [v |-> h[e].data[k], ok |-> TRUE]
    ELSE Lookup(h, h[e].parent, k)

RECURSIVE Keys(_, _)
Keys(h, e) == IF e = 0 THEN {} ELSE DOMAIN h[e].data \cup Keys(h, h[e].parent)

\* the key/value pairs an Env denotes
View(h, e) == [k \in Keys(h, e) |-> Lookup(h, e, k).v]

\* the heap after e.MustSet(k=v); the new Env is its last node
MustSet(h, e, k, v) == Append(h, [parent |-> e, data |-> (k :> v)])

\* the heap after e.Prefix(k, p); the new Env is its last node
Prefix(h, e, k, p) ==
    LET old == Lookup(h, e, k)
    IN  MustSet(h, e, k, IF old.ok THEN p \o old.v ELSE p)

RECURSIVE collapse(_, _, _)
collapse(h, e, seen) ==
    IF e = 0 THEN <<>>
    ELSE LET ks == SelectSeq(KeyOrder,
                        LAMBDA k : k \in DOMAIN h[e].data /\ k \notin seen)
         IN  [j \in 1..Len(ks) |-> ks[j] \o "=" \o h[e].data[ks[j]]]
                \o collapse(h, h[e].parent, seen \cup DOMAIN h[e].data)

Collapse(h, e) == collapse(h, e, {})

\* e was derived from b by edits (b is e or an ancestor of e)
RECURSIVE DerivedFrom(_, _, _)
DerivedFrom(h, e, b) ==
    IF e = 0 THEN FALSE ELSE e = b \/ DerivedFrom(h, h[e].parent, b)

----------------------------------------------------------------------------
(* Go slices: append writes in place while the capacity suffices *)

GoAppend_Shifted(s, elems) ==
    IF s.len + Len(elems) <= Len(s.arr)
    THEN [arr |-> [k \in 1..Len(s.arr) |->
                      IF k >= s.len /\ k < s.len + Len(elems) /\ k >= 1
                      THEN elems[k - s.len + 1] ELSE s.arr[k]],
          len |-> s.len + Len(elems), grew |-> FALSE]
    ELSE [arr |-> SubSeq(s.arr, 1, s.len) \o elems,
          len |-> s.len + Len(elems), grew |-> TRUE]

\* append(s, elems...) for s = [arr |-> backing array, len |-> length]
GoAppend(s, elems) ==
    IF s.len + Len(elems) <= Len(s.arr)
    THEN [arr |-> [k \in 1..Len(s.arr) |->
                      IF k > s.len /\ k <= s.len + Len(elems)
                      THEN elems[k - s.len] ELSE s.arr[k]],
          len |-> s.len + Len(elems), grew |-> FALSE]
    ELSE [arr |-> SubSeq(s.arr, 1, s.len) \o elems,
          len |-> s.len + Len(elems), grew |-> TRUE]

Elems(s) == SubSeq(s.arr, 1, s.len)

----------------------------------------------------------------------------
(* The file helpers *)

Put(f, p, c) == [q \in DOMAIN f \cup {p} |-> IF q = p THEN c ELSE f[q]]

CockroachShortPkg == Join(SrcDir, "pkg/cmd/cockroach-short")

\* filepath.Base of the package directories that are built
Base(p) == IF p = CockroachShortPkg THEN "cockroach-short" ELSE "bench"

\* GoTool().BuildPath(path, out): go build -o out in path; an out that is a
\* directory receives a binary named after the package
BuildPath(f, path, out) ==
    Put(f, IF out = BinDir THEN Join(out, Base(path)) ELSE out, "go build " \o path)

\* copyFile(dst, src)
copyFile(f, dst, src) == Put(f, dst, f[src])

----------------------------------------------------------------------------
(* The commands of exec.Command; envSet = FALSE is cmd.Env == nil, for which *)
(* the process inherits the environment of the harness process             *)

Cmd(path, args, dir, envSet, e, out) ==
    [path |-> path, args |-> args, dir |-> dir, envSet |-> envSet, env |-> e,
     stdout |-> out, stderr |-> out]

CleanCmd == Cmd("bazel", <<"clean", "--expunge">>, SrcDir, FALSE, <<>>, "os.Stdout")

GenCodeCmd_Reversed(e) ==
    Cmd("bazel", <<"run", "//pkg/gen:code">>, SrcDir, TRUE,
        [j \in 1..Len(e) |-> e[Len(e) + 1 - j]], "os.Stdout")

GenCodeCmd(e) ==
    Cmd("bazel", <<"run", "//pkg/gen:code">>, SrcDir, TRUE, e, "os.Stdout")

GenCgoCmd_NoEnv(e) ==
    Cmd("bazel", <<"run", "//pkg/cmd/generate-cgo:generate-cgo", "--run_under",
                   "cd " \o SrcDir \o " && ">>, SrcDir, FALSE, <<>>, "os.Stdout")

GenCgoCmd(e) ==
    Cmd("bazel", <<"run", "//pkg/cmd/generate-cgo:generate-cgo", "--run_under",
                   "cd " \o SrcDir \o " && ">>, SrcDir, TRUE, e, "os.Stdout")

ChmodCmd ==
    Cmd("chmod", <<"-R", "755", Join(BinDir, "cockroachdb-bench")>>, "", FALSE, <<>>, "")

\* the environment a launched process sees
ProcEnv(p) == IF p.envSet THEN p.env ELSE AmbientEnv

----------------------------------------------------------------------------
(* CockroachDB.Build *)

\* the environment list the call that is ending handed to its latest bazel run
\* step, or the one remembered from an earlier Build if it ran none
HandedEnvList ==
    LET runs == {k \in 1..Len(launched) :
                    launched[k].path = "bazel" /\ launched[k].args[1] = "run"}
    IN  IF runs = {} THEN prevEnvList
        ELSE launched[CHOOSE k \in runs : \A j \in runs : j <= k].env

\* nodes still reachable from the Config once Build's local env is dropped
Live(h) == SubSeq(h, 1, IF cfgBuildEnv > cfgExecEnv THEN cfgBuildEnv ELSE cfgExecEnv)

BazeliskError_Bare(e) == e

\* fmt.Errorf("error building bazelisk: %v", err)
BazeliskError(e) ==
    [kind |-> "error", ctx |-> "error building bazelisk",
     msg |-> "error building bazelisk: " \o e.msg]

Leave_NoDefer(ret) ==
    /\ buildRet' = ret
    /\ pc' = "idle"

\* a return statement: the result is fixed, then the deferred call runs
Leave(ret) ==
    /\ buildRet' = ret
    /\ pc' = IF deferred THEN "cleanup" ELSE "idle"

StepCheck_Continue(k, e, next) ==
    /\ stepResults' = Append(stepResults, [step |-> k, err |-> e])
    /\ pc' = next
    /\ UNCHANGED buildRet

\* if err := <step k>; err != nil { return err }
StepCheck(k, e, next) ==
    /\ stepResults' = Append(stepResults, [step |-> k, err |-> e])
    /\ IF e # Nil THEN Leave(e) ELSE pc' = next /\ UNCHANGED buildRet

\* step 1: install bazelisk; on success register the deferred cleanup
BuildInstallBazelisk ==
    /\ pc = "idle"
    /\ \E e \in {Nil} \cup ToolErrs :
        /\ stepResults' = <<[step |-> 1, err |-> e]>>
        /\ IF e # Nil
           THEN /\ buildRet' = BazeliskError(e)
                /\ pc' = "idle"
                /\ deferred' = FALSE
           ELSE /\ buildRet' = NoRet
                /\ pc' = "env"
                /\ deferred' = TRUE
    /\ buildBase' = View(envHeap, cfgBuildEnv)
    /\ prevEnvList' = HandedEnvList
    /\ envHeap' = Live(envHeap)
    /\ env' = 0
    /\ cleanupResults' = <<>>
    /\ launched' = <<>>
    /\ runRet' = NoRet
    /\ i' = 0
    /\ runResults' = <<>>
    /\ purgeResults' = <<>>
    /\ tmpAtStart' = <<>>
    /\ UNCHANGED <<hostVars, dirs,
                   cfgVars, files, tmpDir, argsArr>>

BuildConfigEnv_NoGoroot ==
    /\ pc = "env"
    /\ LET h1 == Prefix(envHeap, cfgBuildEnv, "PATH", Join(GoRoot, "bin") \o ":")
       IN  /\ envHeap' = h1
           /\ env' = Len(h1)
    /\ pc' = "gencode"
    /\ UNCHANGED <<hostVars, dirs, prevEnvList,
                   cfgVars, files, tmpDir, argsArr, deferred, i, buildRet, runRet,
                   buildHist, launched, runHist>>

BuildConfigEnv_Aliased ==
    /\ pc = "env"
    /\ LET h1 == Prefix(envHeap, cfgBuildEnv, "PATH", Join(GoRoot, "bin") \o ":")
           h2 == MustSet(h1, Len(h1), "GOROOT", GoRoot)
       IN  /\ envHeap' = h2
           /\ env' = Len(h2)
           /\ cfgBuildEnv' = Len(h2)
    /\ pc' = "gencode"
    /\ UNCHANGED <<hostVars, dirs, prevEnvList,
                   cfgExecEnv, argsLen, short, files, tmpDir, argsArr, deferred, i,
                   buildRet, runRet, buildHist, launched, runHist>>

\* env := cfg.BuildEnv.Env; env = env.Prefix(PATH); env = env.MustSet(GOROOT)
BuildConfigEnv ==
    /\ pc = "env"
    /\ LET h1 == Prefix(envHeap, cfgBuildEnv, "PATH", Join(GoRoot, "bin") \o ":")
           h2 == MustSet(h1, Len(h1), "GOROOT", GoRoot)
       IN  /\ envHeap' = h2
           /\ env' = Len(h2)
    /\ pc' = "gencode"
    /\ UNCHANGED <<hostVars, dirs, prevEnvList,
                   cfgVars, files, tmpDir, argsArr, deferred, i, buildRet, runRet,
                   buildHist, launched, runHist>>

\* step 2: bazel run //pkg/gen:code
BuildGenCode ==
    /\ pc = "gencode"
    /\ launched' = Append(launched, GenCodeCmd(Collapse(envHeap, env)))
    /\ \E e \in {Nil} \cup ExecErrs : StepCheck(2, e, "gencgo")
    /\ UNCHANGED <<hostVars, dirs, prevEnvList,
                   cfgVars, envHeap, env, files, tmpDir, argsArr, deferred, i, runRet,
                   cleanupResults, buildBase, runHist>>

\* step 3: bazel run //pkg/cmd/generate-cgo:generate-cgo
BuildGenCgo ==
    /\ pc = "gencgo"
    /\ launched' = Append(launched, GenCgoCmd(Collapse(envHeap, env)))
    /\ \E e \in {Nil} \cup ExecErrs : StepCheck(3, e, "buildshort")
    /\ UNCHANGED <<hostVars, dirs, prevEnvList,
                   cfgVars, envHeap, env, files, tmpDir, argsArr, deferred, i, runRet,
                   cleanupResults, buildBase, runHist>>

\* step 4: go build of pkg/cmd/cockroach-short into BinDir
BuildCockroachShort ==
    /\ pc = "buildshort"
    /\ \E e \in {Nil} \cup ToolErrs :
        /\ StepCheck(4, e, "copy")
        /\ files' = IF e = Nil THEN BuildPath(files, CockroachShortPkg, BinDir) ELSE files
    /\ UNCHANGED <<hostVars, dirs, prevEnvList,
                   cfgVars, envHeap, env, tmpDir, argsArr, deferred, i, runRet,
                   cleanupResults, buildBase, launched, runHist>>

CopyDst_Short == Join(BinDir, "cockroach-short")

\* the contractual name of the primary binary
CopyDst == Join(BinDir, "cockroach")

\* step 5: copy cockroach-short to cockroach
BuildCopyBinary ==
    /\ pc = "copy"
    /\ LET src == Join(BinDir, "cockroach-short")
       IN  \E e \in (IF src \in DOMAIN files THEN {Nil} ELSE {}) \cup ToolErrs :
            /\ StepCheck(5, e, "buildbench")
            /\ files' = IF e = Nil THEN copyFile(files, CopyDst, src) ELSE files
    /\ UNCHANGED <<hostVars, dirs, prevEnvList,
                   cfgVars, envHeap, env, tmpDir, argsArr, deferred, i, runRet,
                   cleanupResults, buildBase, launched, runHist>>

\* step 6: go build of the benchmark wrapper
BuildBenchWrapper ==
    /\ pc = "buildbench"
    /\ \E e \in {Nil} \cup ToolErrs :
        /\ StepCheck(6, e, "chmod")
        /\ files' = IF e = Nil
                    THEN BuildPath(files, BenchDir, Join(BinDir, "cockroachdb-bench"))
                    ELSE files
    /\ UNCHANGED <<hostVars, dirs, prevEnvList,
                   cfgVars, envHeap, env, tmpDir, argsArr, deferred, i, runRet,
                   cleanupResults, buildBase, launched, runHist>>

\* step 7: chmod -R 755 of the wrapper, then return nil
BuildChmod ==
    /\ pc = "chmod"
    /\ launched' = Append(launched, ChmodCmd)
    /\ \E e \in {Nil} \cup ExecErrs :
        /\ stepResults' = Append(stepResults, [step |-> 7, err |-> e])
        /\ Leave(e)
    /\ UNCHANGED <<hostVars, dirs, prevEnvList,
                   cfgVars, envHeap, env, files, tmpDir, argsArr, deferred, i, runRet,
                   cleanupResults, buildBase, runHist>>

AfterCleanup_Reported(ret, e) == IF ret = Nil THEN e ELSE ret

\* _ = cmd.Run(): the result of the cleanup is dropped
AfterCleanup(ret, e) == ret

BuildCleanup_OnSuccessOnly ==
    /\ pc = "cleanup"
    /\ \E e \in {Nil} \cup ExecErrs :
        /\ launched' = IF buildRet = Nil THEN Append(launched, CleanCmd) ELSE launched
        /\ cleanupResults' = IF buildRet = Nil THEN Append(cleanupResults, e)
                             ELSE cleanupResults
        /\ buildRet' = AfterCleanup(buildRet, e)
    /\ deferred' = FALSE
    /\ pc' = "idle"
    /\ UNCHANGED <<hostVars, dirs, prevEnvList,
                   cfgVars, envHeap, env, files, tmpDir, argsArr, i, runRet,
                   stepResults, buildBase, runHist>>

\* the deferred call: bazel clean --expunge, best effort; then Build returns
BuildCleanup ==
    /\ pc = "cleanup"
    /\ \E e \in {Nil} \cup ExecErrs :
        /\ launched' = Append(launched, CleanCmd)
        /\ cleanupResults' = Append(cleanupResults, e)
        /\ buildRet' = AfterCleanup(buildRet, e)
    /\ deferred' = FALSE
    /\ pc' = "idle"
    /\ UNCHANGED <<hostVars, dirs, prevEnvList,
                   cfgVars, envHeap, env, files, tmpDir, argsArr, i, runRet,
                   stepResults, buildBase, runHist>>

----------------------------------------------------------------------------
(* CockroachDB.Run *)

Benches == <<"kv0/nodes=1", "kv50/nodes=1", "kv95/nodes=1",
             "kv0/nodes=3", "kv50/nodes=3", "kv95/nodes=3">>

BenchBin == Join(BinDir, "cockroachdb-bench")

VariantFlags_TmpFirst(bench) ==
    <<"-bench", bench, "-tmp", TmpDir, "-cockroachdb-bin", Join(BinDir, "cockroach")>>

\* the flags appended to rcfg.Args for one variant
VariantFlags(bench) ==
    <<"-bench", bench, "-cockroachdb-bin", Join(BinDir, "cockroach"), "-tmp", TmpDir>>

BenchCmd(a, e) == Cmd(BenchBin, a, "", TRUE, e, "rcfg.Results")

\* rmDirContents(dir) when it succeeds
rmDirContents(d) == {}

\* the directories left by rmDirContents(dir), failed or not: it removes the
\* entries of dir, never dir itself
rmDirContentsDirs(ds, d) == ds

PurgeDirs_RemoveAll(ds) == ds \ {TmpDir}

\* the directories after the purge call of Run: rmDirContents(rcfg.TmpDir)
PurgeDirs(ds) == rmDirContentsDirs(ds, TmpDir)

\* entering Run: the range loop starts at the first variant
RunCall ==
    /\ pc = "idle"
    /\ pc' = "invoke"
    /\ i' = 1
    /\ prevEnvList' = HandedEnvList
    /\ runRet' = NoRet
    /\ buildRet' = NoRet
    /\ stepResults' = <<>>
    /\ cleanupResults' = <<>>
    /\ launched' = <<>>
    /\ runResults' = <<>>
    /\ purgeResults' = <<>>
    /\ tmpAtStart' = <<>>
    /\ UNCHANGED <<hostVars, dirs,
                   cfgVars, envHeap, env, files, tmpDir, argsArr, deferred, buildBase>>

AfterInvoke_SkipPurge(e) ==
    IF e # Nil
    THEN runRet' = e /\ pc' = "idle" /\ UNCHANGED i
    ELSE IF i = Len(Benches)
         THEN runRet' = Nil /\ pc' = "idle" /\ UNCHANGED i
         ELSE i' = i + 1 /\ pc' = "invoke" /\ UNCHANGED runRet

AfterInvoke_IgnoreError(e) == pc' = "purge" /\ UNCHANGED <<runRet, i>>

\* if err := cmd.Run(); err != nil { return err }
AfterInvoke(e) ==
    IF e # Nil
    THEN runRet' = e /\ pc' = "idle" /\ UNCHANGED i
    ELSE pc' = "purge" /\ UNCHANGED <<runRet, i>>

\* one iteration up to cmd.Run(): build the arguments, run the variant
RunInvoke ==
    /\ pc = "invoke"
    /\ LET a1 == GoAppend([arr |-> argsArr, len |-> argsLen], VariantFlags(Benches[i]))
           a2 == IF short THEN GoAppend(a1, <<"-short">>) ELSE a1
       IN  /\ argsArr' = IF a1.grew THEN argsArr
                         ELSE IF short /\ ~a2.grew THEN a2.arr ELSE a1.arr
           /\ launched' = Append(launched,
                                 BenchCmd(Elems(a2), Collapse(envHeap, cfgExecEnv)))
    /\ tmpAtStart' = Append(tmpAtStart, tmpDir)
    /\ IF BenchBin \in DOMAIN files
       THEN \E e \in {Nil, Err("exit status 1")}, w \in SUBSET TmpEntries :
                /\ runResults' = Append(runResults, e)
                /\ tmpDir' = tmpDir \cup w
                /\ AfterInvoke(e)
       ELSE LET e == Err("fork/exec: no such file or directory")
            IN  /\ runResults' = Append(runResults, e)
                /\ tmpDir' = tmpDir
                /\ AfterInvoke(e)
    /\ UNCHANGED <<hostVars, dirs, prevEnvList,
                   cfgVars, envHeap, env, files, deferred, buildRet, buildHist,
                   purgeResults>>

AfterPurge_Continue(e) ==
    IF i = Len(Benches)
    THEN runRet' = e /\ pc' = "idle" /\ UNCHANGED i
    ELSE IF e # Nil
         THEN i' = i + 1 /\ pc' = "invoke" /\ runRet' = e
         ELSE i' = i + 1 /\ pc' = "invoke" /\ UNCHANGED runRet

AfterPurge_LastIgnored(e) ==
    IF i = Len(Benches)
    THEN runRet' = Nil /\ pc' = "idle" /\ UNCHANGED i
    ELSE IF e # Nil
         THEN runRet' = e /\ pc' = "idle" /\ UNCHANGED i
         ELSE i' = i + 1 /\ pc' = "invoke" /\ UNCHANGED runRet

AfterPurge_IgnoreError(e) ==
    IF i = Len(Benches)
    THEN runRet' = Nil /\ pc' = "idle" /\ UNCHANGED i
    ELSE i' = i + 1 /\ pc' = "invoke" /\ UNCHANGED runRet

\* if err := rmDirContents(rcfg.TmpDir); err != nil { return err }; next
\* variant, or return nil after the last one
AfterPurge(e) ==
    IF e # Nil
    THEN runRet' = e /\ pc' = "idle" /\ UNCHANGED i
    ELSE IF i = Len(Benches)
         THEN runRet' = Nil /\ pc' = "idle" /\ UNCHANGED i
         ELSE i' = i + 1 /\ pc' = "invoke" /\ UNCHANGED runRet

\* the purge of TmpDir after a variant that succeeded
RunPurge ==
    /\ pc = "purge"
    /\ \E e \in {Nil} \cup ToolErrs :
        /\ purgeResults' = Append(purgeResults, e)
        /\ IF e = Nil
           THEN tmpDir' = rmDirContents(tmpDir)
           ELSE \E rest \in SUBSET tmpDir : tmpDir' = rest
        /\ AfterPurge(e)
    /\ dirs' = PurgeDirs(dirs)
    /\ UNCHANGED <<hostVars, prevEnvList,
                   cfgVars, envHeap, env, files, argsArr, deferred, buildRet,
                   buildHist, launched, runResults, tmpAtStart>>

----------------------------------------------------------------------------
(* CockroachDB.CheckPrerequisites and CockroachDB.Get *)

\* the architectures a host may have
GoArchs == {"amd64", "arm64", "386"}

stageVars == <<pc, envHeap, cfgBuildEnv, cfgExecEnv, env, files, tmpDir, argsArr,
               argsLen, short, deferred, i, buildRet, runRet, stepResults,
               cleanupResults, launched, runResults, purgeResults, tmpAtStart,
               buildBase, prevEnvList, dirs>>

PrereqResult_Or(arch) ==
    IF arch # "arm64" \/ arch # "amd64" THEN Err("requires amd64 or arm64") ELSE Nil

\* if runtime.GOARCH != "arm64" && runtime.GOARCH != "amd64" { return error }
PrereqResult(arch) ==
    IF arch # "arm64" /\ arch # "amd64" THEN Err("requires amd64 or arm64") ELSE Nil

CheckPrerequisites ==
    /\ pc = "idle"
    /\ prereqRet' = PrereqResult(goarch)
    /\ UNCHANGED <<stageVars, goarch, srcTree, getRet, cloned, gotTrees>>

\* the remote and the pinned revision Get acquires
CockroachURL == "https://github.com/cockroachdb/cockroach"
CockroachRev == "v24.1.0-rc.1"

\* how gitDeepClone can end on a destination that holds t
CloneOutcomes(t) ==
    IF t # EmptyTree THEN {Err("clone: destination is not empty")}
    ELSE {Nil, Err("clone failed"), Err("checkout failed"), Err("submodule sync failed")}

\* the destination after gitDeepClone(dir, url, rev) ended with e: a full
\* clone, then the checkout of rev, then the submodules
gitDeepClone(t, url, rev, e) ==
    IF e = Nil THEN [remote |-> url, rev |-> rev, submodules |-> TRUE]
    ELSE IF e = Err("checkout failed")
         THEN [remote |-> url, rev |-> "HEAD", submodules |-> FALSE]
    ELSE IF e = Err("submodule sync failed")
         THEN [remote |-> url, rev |-> rev, submodules |-> FALSE]
    ELSE t

GetReturn_Nil(e) == Nil

\* return gitDeepClone(...)
GetReturn(e) == e

Get ==
    /\ pc = "idle"
    /\ \E e \in CloneOutcomes(srcTree) :
        /\ cloned' = [dir |-> SrcDir, url |-> CockroachURL, rev |-> CockroachRev,
                      err |-> e]
        /\ srcTree' = gitDeepClone(srcTree, CockroachURL, CockroachRev, e)
        /\ getRet' = GetReturn(e)
        /\ gotTrees' = IF e # Nil THEN gotTrees
                       ELSE IF gotTrees = <<>> THEN <<srcTree'>>
                       ELSE <<gotTrees[Len(gotTrees)], srcTree'>>
    /\ UNCHANGED <<stageVars, goarch, prereqRet>>

\* the driver empties the source directory before it retries an acquisition
CleanSrc ==
    /\ pc = "idle"
    /\ srcTree # EmptyTree
    /\ srcTree' = EmptyTree
    /\ UNCHANGED <<stageVars, goarch, prereqRet, getRet, cloned, gotTrees>>

----------------------------------------------------------------------------
(* The state machine *)

Init ==
    /\ pc = "idle"
    /\ \E d \in BaseEnvData :
        envHeap = <<[parent |-> 0, data |-> d], [parent |-> 0, data |-> ExecEnvData]>>
    /\ cfgBuildEnv = 1
    /\ cfgExecEnv = 2
    /\ env = 0
    /\ files = [q \in {} |-> ""]
    /\ tmpDir = {}
    /\ \E base \in BaseArgLists, c \in SpareCaps :
        /\ argsArr = base \o [k \in 1..c |-> ""]
        /\ argsLen = Len(base)
    /\ short \in BOOLEAN
    /\ deferred = FALSE
    /\ i = 0
    /\ buildRet = NoRet
    /\ runRet = NoRet
    /\ stepResults = <<>>
    /\ cleanupResults = <<>>
    /\ launched = <<>>
    /\ runResults = <<>>
    /\ purgeResults = <<>>
    /\ tmpAtStart = <<>>
    /\ buildBase = View(envHeap, cfgBuildEnv)
    /\ prevEnvList = <<>>
    /\ dirs = {SrcDir, BinDir, BenchDir, TmpDir}
    /\ goarch = "amd64"
    /\ prereqRet = NoRet
    /\ srcTree = EmptyTree
    /\ getRet = NoRet
    /\ cloned = NoClone
    /\ gotTrees = <<>>

Next ==
    \/ BuildInstallBazelisk
    \/ BuildConfigEnv
    \/ BuildGenCode
    \/ BuildGenCgo
    \/ BuildCockroachShort
    \/ BuildCopyBinary
    \/ BuildBenchWrapper
    \/ BuildChmod
    \/ BuildCleanup
    \/ RunCall
    \/ RunInvoke
    \/ RunPurge

Spec == Init /\ [][Next]_vars

(* The whole lifecycle as the driver sequences it, over every host: the   *)
(* prerequisite check first, no stage with side effects unless it passed, *)
(* Build and Run only on an acquired source tree.                          *)

InitLifecycle ==
    /\ pc = "idle"
    /\ \E d \in BaseEnvData :
        envHeap = <<[parent |-> 0, data |-> d], [parent |-> 0, data |-> ExecEnvData]>>
    /\ cfgBuildEnv = 1
    /\ cfgExecEnv = 2
    /\ env = 0
    /\ files = [q \in {} |-> ""]
    /\ tmpDir = {}
    /\ argsArr = <<>>
    /\ argsLen = 0
    /\ short = FALSE
    /\ deferred = FALSE
    /\ i = 0
    /\ buildRet = NoRet
    /\ runRet = NoRet
    /\ stepResults = <<>>
    /\ cleanupResults = <<>>
    /\ launched = <<>>
    /\ runResults = <<>>
    /\ purgeResults = <<>>
    /\ tmpAtStart = <<>>
    /\ buildBase = View(envHeap, cfgBuildEnv)
    /\ prevEnvList = <<>>
    /\ dirs = {SrcDir, BinDir, BenchDir, TmpDir}
    /\ goarch \in GoArchs
    /\ prereqRet = NoRet
    /\ srcTree = EmptyTree
    /\ getRet = NoRet
    /\ cloned = NoClone
    /\ gotTrees = <<>>

NextLifecycle ==
    \/ CheckPrerequisites
    \/ prereqRet = Nil /\ Get
    \/ prereqRet = Nil /\ CleanSrc
    \/ prereqRet = Nil /\ srcTree.submodules /\ Next

SpecLifecycle == InitLifecycle /\ [][NextLifecycle]_vars


----------------------------------------------------------------------------
(* Properties *)

BuildReturned == pc = "idle" /\ buildRet # NoRet
RunReturned == pc = "idle" /\ runRet # NoRet

\* the last step Build started
LastStep == stepResults[Len(stepResults)]

\* the variant process ran to its exit (it was launched)
Completed(e) == e = Nil \/ e = Err("exit status 1")

Succeeded(rs) == {k \in 1..Len(rs) : rs[k] = Nil}

\* the argument that follows flag in the argument list a
ArgAfter(a, flag) ==
    IF \E k \in 1..(Len(a) - 1) : a[k] = flag
    THEN LET first == CHOOSE k \in 1..(Len(a) - 1) :
                          a[k] = flag /\ \A j \in 1..(k - 1) : a[j] # flag
         IN  a[first + 1]
    ELSE ""

\* C1 (as claimed): when Run returns, every variant invocation that ran to
\* completion, successful or failed, was followed by a purge of TmpDir: the
\* number of purges equals the number of completed invocations.
C1_PurgeAfterEveryVariant ==
    RunReturned =>
        Len(purgeResults) = Cardinality({k \in 1..Len(runResults) : Completed(runResults[k])})

\* C1 (amended): a purge follows exactly the variant invocations that
\* succeeded; a failed variant makes Run return without a purge.  At every
\* point of Run the number of purges is the number of successful invocations
\* (one less while the purge of the latest success is pending).
C1_PurgeAfterEverySuccess ==
    Len(purgeResults) =
        Cardinality(Succeeded(runResults)) - (IF pc = "purge" THEN 1 ELSE 0)

\* second variant fails: two invocations, one purge
C1_Witness ==
    /\ RunReturned
    /\ Len(runResults) = 2
    /\ runResults[2] = Err("exit status 1")
    /\ Len(purgeResults) = 1

\* C2 (as claimed): variants run in declared order; when Run returns the
\* number of invocations is Len(Benches) if no variant failed and otherwise
\* the index of the first failing variant, whose error Run returns.
C2_StopAtFirstFailingVariant ==
    /\ \A k \in 1..Len(runResults) : ArgAfter(launched[k].args, "-bench") = Benches[k]
    /\ RunReturned =>
        LET failing == {k \in 1..Len(runResults) : runResults[k] # Nil}
        IN  IF failing = {}
            THEN Len(runResults) = Len(Benches)
            ELSE /\ \A k \in failing : Len(runResults) = k
                 /\ runRet = runResults[Len(runResults)]

\* C2 (amended): variants run in declared order and Run stops at the first
\* variant whose invocation or whose purge fails, returning that error; the
\* number of invocations is Len(Benches) only if no invocation and no purge
\* failed, otherwise it is the index of the first variant at which one did.
C2_StopAtFirstFailure ==
    /\ Len(runResults) <= Len(Benches)
    /\ \A k \in 1..Len(runResults) : ArgAfter(launched[k].args, "-bench") = Benches[k]
    /\ \A k \in 1..(Len(runResults) - 1) : runResults[k] = Nil /\ purgeResults[k] = Nil
    /\ RunReturned =>
        LET n == Len(runResults)
        IN  IF runResults[n] # Nil THEN runRet = runResults[n]
            ELSE IF purgeResults[n] # Nil THEN runRet = purgeResults[n]
            ELSE n = Len(Benches) /\ runRet = Nil

\* no variant fails, the purge after the third fails: three invocations
C2_Witness ==
    /\ RunReturned
    /\ Len(runResults) = 3
    /\ runResults[3] = Nil
    /\ purgeResults[3] # Nil
    /\ runRet = purgeResults[3]

\* C3 (as claimed): whatever step fails, and when none fails, the cleanup has
\* run exactly once when Build returns.
C3_CleanupExactlyOnce == BuildReturned => Len(cleanupResults) = 1

\* C3 (amended): the cleanup runs exactly once when Build returns after a
\* failure of any of the steps 2..7 or after full success, and not at all
\* when step 1 (the bazelisk install) fails; it never runs twice.
C3_CleanupOnceAfterInstall ==
    /\ Len(cleanupResults) <= 1
    /\ BuildReturned =>
        Len(cleanupResults) = (IF stepResults[1].err # Nil THEN 0 ELSE 1)

\* step 4 fails: cleanup ran once
C3_Witness ==
    /\ BuildReturned
    /\ Len(stepResults) = 4
    /\ LastStep.err # Nil
    /\ Len(cleanupResults) = 1

\* C4: the outcome of the cleanup does not change what Build returns: once
\* the cleanup has run, Build returns the error of the failed step, or
\* success when all seven steps succeeded, whatever the cleanup's result.
C4_CleanupNeverMasks ==
    (BuildReturned /\ Len(cleanupResults) > 0) =>
        /\ buildRet = LastStep.err
        /\ LastStep.err = Nil => Len(stepResults) = 7

\* all steps succeed, the cleanup fails, Build returns success
C4_Witness ==
    /\ BuildReturned
    /\ Len(stepResults) = 7
    /\ LastStep.err = Nil
    /\ cleanupResults # <<>> /\ cleanupResults[1] # Nil
    /\ buildRet = Nil

\* C5: the steps of Build start in declared order 1, 2, ..., each only after
\* its predecessor succeeded; after a failing step no further step starts.
C5_StepsInOrder ==
    /\ Len(stepResults) <= 7
    /\ \A j \in 1..Len(stepResults) :
        /\ stepResults[j].step = j
        /\ j < Len(stepResults) => stepResults[j].err = Nil

\* step 3 fails and Build returns with three steps started
C5_Witness ==
    /\ BuildReturned
    /\ Len(stepResults) = 3
    /\ LastStep.err # Nil

\* C6 (as claimed): whenever a step fails, the error Build returns carries
\* the identity of the failing step in front of the underlying error.
C6_ErrorNamesStep ==
    (BuildReturned /\ LastStep.err # Nil) =>
        /\ buildRet.ctx # ""
        /\ buildRet.msg = buildRet.ctx \o ": " \o LastStep.err.msg

\* C6 (amended): only a failure of step 1 is returned with the step named
\* ("error building bazelisk: " followed by the underlying error's text); a
\* failure of any of the steps 2..7 is returned as the underlying error
\* itself, with no step identity added.
C6_OnlyBazeliskNamed ==
    (BuildReturned /\ LastStep.err # Nil) =>
        IF LastStep.step = 1
        THEN /\ buildRet.ctx = "error building bazelisk"
             /\ buildRet.msg = buildRet.ctx \o ": " \o LastStep.err.msg
        ELSE buildRet = LastStep.err /\ buildRet.ctx = ""

\* step 1 succeeds and step 2 fails: the bare exit error is returned
C6_Witness ==
    /\ BuildReturned
    /\ Len(stepResults) = 2
    /\ LastStep.err = Err("exit status 1")
    /\ buildRet = Err("exit status 1")

\* C7: every variant of Run other than the first starts with TmpDir empty.
C7_NoResidueAtVariantStart ==
    \A k \in 2..Len(tmpAtStart) : tmpAtStart[k] = {}

\* the first variant started on residue of an earlier Run, the second on an
\* empty TmpDir
C7_Witness ==
    /\ Len(tmpAtStart) >= 2
    /\ tmpAtStart[1] = TmpEntries
    /\ tmpAtStart[2] = {}

\* C8: when Build returns success, BinDir holds "cockroach", a copy of the
\* "cockroach-short" binary built from pkg/cmd/cockroach-short, and
\* "cockroachdb-bench"; Run executes BinDir/cockroachdb-bench and passes
\* BinDir/cockroach as -cockroachdb-bin, and nothing else under BinDir.
C8_ContractualBinaries ==
    /\ (BuildReturned /\ buildRet = Nil) =>
        /\ {Join(BinDir, "cockroach"), Join(BinDir, "cockroach-short"),
            Join(BinDir, "cockroachdb-bench")} \subseteq DOMAIN files
        /\ files[Join(BinDir, "cockroach-short")] = "go build " \o CockroachShortPkg
        /\ files[Join(BinDir, "cockroach")] = files[Join(BinDir, "cockroach-short")]
        /\ files[Join(BinDir, "cockroachdb-bench")] = "go build " \o BenchDir
    /\ \A k \in 1..Len(runResults) :
        /\ launched[k].path = Join(BinDir, "cockroachdb-bench")
        /\ ArgAfter(launched[k].args, "-cockroachdb-bin") = Join(BinDir, "cockroach")
        /\ runResults[k] = Nil =>
              {launched[k].path, ArgAfter(launched[k].args, "-cockroachdb-bin")}
                  \subseteq DOMAIN files

\* Build returned success and left the binaries in BinDir
C8_Witness ==
    /\ BuildReturned /\ buildRet = Nil
    /\ Join(BinDir, "cockroach") \in DOMAIN files
    /\ Join(BinDir, "cockroachdb-bench") \in DOMAIN files

IsBazelRun(p) == p.path = "bazel" /\ p.args[1] = "run"

\* C9 (as claimed): every process Build and Run launch has its environment
\* set (replaced by a collapsed overlay), none inherits the ambient one.
C9_NoAmbientEnv ==
    \A k \in 1..Len(launched) : launched[k].envSet

\* C9 (amended): the two bazel run steps get the collapsed build overlay
\* (derived from cfg.BuildEnv by the PATH and GOROOT edits) and every variant
\* gets the collapsed exec environment; the bazel clean cleanup and chmod set
\* no environment and run with the ambient environment of the harness.
C9_EnvOfEachProcess ==
    \A k \in 1..Len(launched) :
        LET p == launched[k]
        IN  /\ IsBazelRun(p) =>
                /\ p.envSet
                /\ env # cfgBuildEnv /\ DerivedFrom(envHeap, env, cfgBuildEnv)
                /\ ProcEnv(p) = Collapse(envHeap, env)
            /\ p.path = BenchBin =>
                p.envSet /\ ProcEnv(p) = Collapse(envHeap, cfgExecEnv)
            /\ (p.path = "chmod" \/ (p.path = "bazel" /\ ~IsBazelRun(p))) =>
                ~p.envSet /\ ProcEnv(p) = AmbientEnv

\* a successful Build launched both bazel runs, chmod and the cleanup
C9_Witness ==
    /\ BuildReturned /\ buildRet = Nil
    /\ Len(launched) = 4
    /\ launched[3] = ChmodCmd /\ launched[4] = CleanCmd

\* C10: the edits Build makes never change cfg.BuildEnv: during and after
\* Build it denotes exactly the key/value pairs it held when Build was
\* called.
C10_BaseEnvUnchanged ==
    /\ View(envHeap, cfgBuildEnv) = buildBase
    /\ env # 0 => env # cfgBuildEnv

\* Build returned after editing PATH of a base that had one
C10_Witness ==
    /\ BuildReturned
    /\ env # 0
    /\ "PATH" \in DOMAIN buildBase
    /\ View(envHeap, env)["PATH"] = Join(GoRoot, "bin") \o ":" \o buildBase["PATH"]
    /\ View(envHeap, cfgBuildEnv) = buildBase

\* the environment Build is to hand to bazel, from the base it was called with
ExpectedBuildEnv ==
    [k \in DOMAIN buildBase \cup {"PATH", "GOROOT"} |->
        IF k = "PATH"
        THEN Join(GoRoot, "bin") \o ":"
                 \o (IF "PATH" \in DOMAIN buildBase THEN buildBase["PATH"] ELSE "")
        ELSE IF k = "GOROOT" THEN GoRoot
        ELSE buildBase[k]]

\* C11: the list handed to each bazel run step holds one entry per key:
\* PATH is GoRoot/bin: followed by the base PATH (or alone if the base had
\* none), GOROOT is cfg.GoRoot whatever the base held, every other key keeps
\* its base value.
C11_BazelEnvContents ==
    \A k \in 1..Len(launched) :
        IsBazelRun(launched[k]) =>
            LET e == launched[k].env
            IN  /\ {e[j] : j \in 1..Len(e)} =
                       {key \o "=" \o ExpectedBuildEnv[key] : key \in DOMAIN ExpectedBuildEnv}
                /\ Len(e) = Cardinality(DOMAIN ExpectedBuildEnv)

\* both bazel steps ran over a base that held PATH and another GOROOT
C11_Witness ==
    /\ Len(launched) >= 2
    /\ IsBazelRun(launched[1]) /\ IsBazelRun(launched[2])
    /\ "GOROOT" \in DOMAIN buildBase /\ buildBase["GOROOT"] # GoRoot
    /\ "PATH" \in DOMAIN buildBase

AllNil(rs) == \A k \in 1..Len(rs) : rs[k] = Nil

\* C13: Build returns success only if each of its seven steps succeeded, Run
\* only if all six invocations and all six purges succeeded; otherwise the
\* stage returns one error.
C13_NoPartialSuccess ==
    /\ BuildReturned =>
        /\ buildRet.kind \in {"nil", "error"}
        /\ buildRet = Nil <=>
              (Len(stepResults) = 7 /\ \A k \in 1..7 : stepResults[k].err = Nil)
    /\ RunReturned =>
        /\ runRet.kind \in {"nil", "error"}
        /\ runRet = Nil <=>
              /\ Len(runResults) = Len(Benches) /\ AllNil(runResults)
              /\ Len(purgeResults) = Len(Benches) /\ AllNil(purgeResults)

\* all six variants succeeded, the last purge failed: Run returns an error
C13_Witness ==
    /\ RunReturned
    /\ Len(runResults) = Len(Benches) /\ AllNil(runResults)
    /\ Len(purgeResults) = Len(Benches) /\ purgeResults[Len(Benches)] # Nil
    /\ runRet.kind = "error"

\* the base argument list rcfg.Args
BaseArgs == SubSeq(argsArr, 1, argsLen)

\* C14 (as claimed): the arguments of a variant are the base arguments, the
\* -bench flag, -short if short mode is on, then -cockroachdb-bin and -tmp.
C14_ShortBeforePaths ==
    \A k \in 1..Len(runResults) :
        launched[k].args =
            BaseArgs \o <<"-bench", Benches[k]>>
                \o (IF short THEN <<"-short">> ELSE <<>>)
                \o <<"-cockroachdb-bin", Join(BinDir, "cockroach"), "-tmp", TmpDir>>

\* C14 (amended): the arguments of a variant are the base arguments, the
\* -bench flag, -cockroachdb-bin and -tmp with their paths, and last -short
\* if and only if short mode is on.
C14_ShortLast ==
    \A k \in 1..Len(runResults) :
        launched[k].args =
            BaseArgs \o <<"-bench", Benches[k]>>
                \o <<"-cockroachdb-bin", Join(BinDir, "cockroach"), "-tmp", TmpDir>>
                \o (IF short THEN <<"-short">> ELSE <<>>)

\* a variant ran in short mode over a non-empty base list
C14_Witness ==
    /\ short
    /\ argsLen > 0
    /\ Len(runResults) >= 2
    /\ launched[2].args[Len(launched[2].args)] = "-short"

\* C15: the purge of Run removes entries of TmpDir only: TmpDir and BinDir
\* exist as directories after every purge and whenever Run has returned, and
\* Run creates no directory.
C15_DirectoriesKept ==
    (Len(purgeResults) > 0 \/ RunReturned) =>
        dirs = {SrcDir, BinDir, BenchDir, TmpDir}

\* a purge emptied a TmpDir that held entries, and the directory is there
C15_Witness ==
    /\ Len(purgeResults) > 0
    /\ purgeResults[1] = Nil
    /\ tmpAtStart[1] # {}
    /\ tmpDir = {}
    /\ TmpDir \in dirs

\* C16: CheckPrerequisites returns an error exactly on a host that is
\* neither amd64 nor arm64, the same on every call, and the call changes
\* nothing but the result it hands back.
C16_PrerequisitesPure ==
    /\ [](prereqRet # NoRet =>
            /\ prereqRet.kind \in {"nil", "error"}
            /\ prereqRet = Nil <=> goarch \in {"amd64", "arm64"})
    /\ [][prereqRet' # prereqRet =>
            UNCHANGED <<stageVars, goarch, srcTree, getRet, cloned, gotTrees>>]_vars
    /\ [][prereqRet # NoRet => prereqRet' = prereqRet]_vars

\* the prerequisites passed on arm64 and the source was acquired
C16_Witness ==
    /\ goarch = "arm64"
    /\ prereqRet = Nil
    /\ getRet = Nil

\* C17: Get always clones github.com/cockroachdb/cockroach at v24.1.0-rc.1
\* into SrcDir and returns what the acquisition returned; every successful
\* Get into an empty destination leaves the same tree, so two of them agree.
C17_GetPinnedAndIdempotent ==
    /\ cloned # NoClone =>
        /\ cloned.dir = SrcDir
        /\ cloned.url = "https://github.com/cockroachdb/cockroach"
        /\ cloned.rev = "v24.1.0-rc.1"
        /\ getRet = cloned.err
    /\ \A k \in 1..Len(gotTrees) :
        /\ gotTrees[k] = [remote |-> "https://github.com/cockroachdb/cockroach",
                          rev |-> "v24.1.0-rc.1", submodules |-> TRUE]
        /\ gotTrees[k] = gotTrees[1]

\* two Gets into an emptied destination succeeded
C17_Witness ==
    /\ Len(gotTrees) = 2
    /\ getRet = Nil
    /\ srcTree = gotTrees[2]

\* the positions of bazel commands among the processes of the current call
BazelLaunches == {k \in 1..Len(launched) : launched[k].path = "bazel"}

\* C18: bazel clean --expunge is launched at most once per Build, as the
\* last process of the call and with nothing of Build left to execute; once
\* Build has returned it has been launched if and only if the bazelisk
\* install succeeded, and after a failed install no bazel command was
\* launched at all.
C18_CleanupLastIffInstalled ==
    LET cleans == {k \in 1..Len(launched) : launched[k] = CleanCmd}
    IN  /\ Cardinality(cleans) <= 1
        /\ Cardinality(cleans) = Len(cleanupResults)
        /\ cleans # {} => /\ cleans = {Len(launched)}
                          /\ BuildReturned
                          /\ ~deferred
        /\ BuildReturned => (cleans # {} <=> stepResults[1].err = Nil)
        /\ (stepResults # <<>> /\ stepResults[1].err # Nil) =>
              BuildReturned /\ BazelLaunches = {}

\* the cleanup ran as the third bazel command, after generate-cgo failed
C18_Witness ==
    /\ BuildReturned
    /\ Len(stepResults) = 3
    /\ LastStep.err # Nil
    /\ BazelLaunches = {1, 2, 3}
    /\ launched[3] = CleanCmd

\* C19: when the purge after a successful variant fails, Run has returned
\* that purge error and the failed purge is the last thing Run did: the
\* variant before it is the last one invoked, so no variant starts after a
\* failed purge.
C19_PurgeFailureStopsRun ==
    \A k \in 1..Len(purgeResults) :
        purgeResults[k] # Nil =>
            /\ runResults[k] = Nil
            /\ k = Len(purgeResults)
            /\ Len(runResults) = k
            /\ Len(launched) = k
            /\ Len(tmpAtStart) = k
            /\ RunReturned
            /\ runRet = purgeResults[k]
            /\ runRet # Nil

\* the purge after the second variant failed, four variants were never run
C19_Witness ==
    /\ RunReturned
    /\ Len(purgeResults) = 2
    /\ purgeResults[1] = Nil
    /\ purgeResults[2] # Nil
    /\ runResults = <<Nil, Nil>>
    /\ runRet = purgeResults[2]

\* how often x occurs in the argument list a
Count(a, x) == Cardinality({k \in 1..Len(a) : a[k] = x})

\* C20: the arguments of every variant are the base arguments followed by
\* exactly one -bench, whose value is that variant, none of the other
\* variants, and at most one -short; no step changes the length or the
\* elements of the base list rcfg.Args, whatever its spare capacity.
C20_ArgsNeverAccumulate ==
    /\ [](\A k \in 1..Len(runResults) :
            LET a == launched[k].args
            IN  /\ SubSeq(a, 1, argsLen) = BaseArgs
                /\ Count(a, "-bench") = 1
                /\ a[argsLen + 1] = "-bench"
                /\ a[argsLen + 2] = Benches[k]
                /\ \A j \in 1..Len(Benches) : j # k => Count(a, Benches[j]) = 0
                /\ Count(a, "-short") <= 1
                /\ Len(a) <= argsLen + Len(VariantFlags(Benches[k])) + 1)
    /\ [](BaseArgs \in BaseArgLists)
    /\ [][argsLen' = argsLen /\ BaseArgs' = BaseArgs]_vars

\* Run returned after all six variants in short mode, on a non-empty base
\* list whose backing array had room for the variant flags
C20_Witness ==
    /\ RunReturned
    /\ Len(runResults) = Len(Benches)
    /\ short
    /\ argsLen > 0
    /\ Len(argsArr) > argsLen
    /\ argsArr[argsLen + 2] = Benches[Len(Benches)]
    /\ launched[1].args[argsLen + 2] = Benches[1]

====
